---- MODULE Spec2Model ----
(***************************************************************************)
(* A model of the NestJS RBAC starter: the principal store (UserService),  *)
(* authentication (AuthService), the JWT guard, the role and permission    *)
(* guards and the controllers that use them.                               *)
(*                                                                         *)
(* JavaScript values are modelled as follows.  An array is a sequence.  An *)
(* object is a record; a missing property is a missing field.  A value     *)
(* that may be null/undefined/false is a set with no or one element        *)
(* ({} is the falsy value).                                                *)
(***************************************************************************)
EXTENDS Integers, Sequences, FiniteSets, TLC

VARIABLES
    users,    \* the rows of table "users": a set of User records
    nextId,   \* the next value of the generated primary key
    tokens,   \* the access token the client holds: that of its latest login
    now,      \* the clock, in ticks
    calls,    \* the UserService.create calls in flight, by call slot
    last      \* the last request served and what it returned

vars == <<users, nextId, tokens, now, calls, last>>

(***************************************************************************)
(* Bounds of the model.                                                    *)
(***************************************************************************)
MaxRequired == 2    \* longest list of required roles / permissions
MaxHeld == 2        \* longest list of roles / permissions in token claims
MaxId == 2          \* largest primary key the store hands out
MaxTime == 1        \* last tick of the clock
TokenTTL == 1       \* signOptions.expiresIn, in ticks

Emails == {"a@x.com", "b@x.com"}
Usernames == {"alice", "bob"}
Passwords == {"p", "q"}     \* what a login may try
NewPasswords == {"p"}       \* what a signup may choose
Slots == {1, 2}

(***************************************************************************)
(* Program constants.                                                      *)
(***************************************************************************)
BcryptCost == 10
HttpStatus_OK == 200
HttpStatus_CREATED == 201
HttpStatus_UNAUTHORIZED == 401

RoleEnum == {"user", "admin", "moderator", "super_admin"}
Role_USER == "user"
Role_ADMIN == "admin"
Role_SUPER_ADMIN == "super_admin"
PermissionNames == {"create-articles", "edit-articles"}
SigningKey == "secret"
Keys == {SigningKey, "other"}

(***************************************************************************)
(* Arrays.                                                                 *)
(***************************************************************************)
Range(s) == {s[i] : i \in 1..Len(s)}

SeqsUpTo(S, n) == UNION {[1..k -> S] : k \in 0..n}

\* Array.prototype.includes
includes(arr, x) == \E i \in 1..Len(arr) : arr[i] = x

\* { password, ...result } = obj
WithoutPassword(obj) == [f \in DOMAIN obj \ {"password"} |-> obj[f]]

(***************************************************************************)
(* Exceptions, as the HTTP layer serializes them.                          *)
(***************************************************************************)
HttpException(message, status) ==
    [name |-> "HttpException", status |-> status, message |-> message]
UnauthorizedException(message) ==
    [name |-> "UnauthorizedException", status |-> HttpStatus_UNAUTHORIZED,
     message |-> message]
NotFoundException(message) ==
    [name |-> "NotFoundException", status |-> 404, message |-> message]
ConflictException(message) ==
    [name |-> "ConflictException", status |-> 409, message |-> message]
\* a guard that returns false
ForbiddenException ==
    [name |-> "ForbiddenException", status |-> 403, message |-> "Forbidden resource"]
\* any error that is no HttpException
InternalError(name) ==
    [name |-> name, status |-> 500, message |-> "Internal server error"]

apiResponse(statusCode, message, data) ==
    [statusCode |-> statusCode, message |-> message, data |-> data]

(***************************************************************************)
(* Tokens.  A client presents no token, a string that is no JWT, or a JWT  *)
(* signed with some key, carrying a payload, iat and exp.                  *)
(***************************************************************************)
NoToken == [kind |-> "none"]
MalformedToken == [kind |-> "malformed"]

\* JwtService.sign(payload) at time t
JwtService_sign(payload, t) ==
    [kind |-> "jwt", key |-> SigningKey, payload |-> payload,
     iat |-> t, exp |-> t + TokenTTL]

\* passport-jwt with jsonwebtoken.verify, then JwtStrategy.validate: what
\* AuthGuard('jwt') hands to handleRequest as (err, user, info).  The token
\* is checked for its structure, then its signature, then its expiry; a
\* verified payload becomes request.user.  validateFails is validate throwing.
JwtStrategy_authenticate(token, t, validateFails) ==
    IF token.kind = "none"
    THEN [err |-> {}, user |-> {}, info |-> {"Error"}]
    ELSE IF token.kind = "malformed"
    THEN [err |-> {}, user |-> {}, info |-> {"JsonWebTokenError"}]
    ELSE IF token.key # SigningKey
    THEN [err |-> {}, user |-> {}, info |-> {"JsonWebTokenError"}]
    ELSE IF t >= token.exp
    THEN [err |-> {}, user |-> {}, info |-> {"TokenExpiredError"}]
    ELSE IF validateFails
    THEN [err |-> {InternalError("Error")}, user |-> {}, info |-> {}]
    ELSE [err |-> {}, user |-> {token.payload}, info |-> {}]

(***************************************************************************)
(* JwtAuthGuard.handleRequest                                              *)
(***************************************************************************)
\* mutant: the expired token is not told apart
handleRequest_noExpiry(err, user, info) ==
    IF err # {} \/ user = {}
    THEN [thrown |-> IF err # {} THEN err ELSE {UnauthorizedException("Unauthorized")},
          value |-> {}]
    ELSE [thrown |-> {}, value |-> user]

\* mutant: only a reported error is refused, a missing user passes
handleRequest_errOnly(err, user, info) ==
    IF err # {}
    THEN [thrown |-> err, value |-> {}]
    ELSE [thrown |-> {}, value |-> user]

handleRequest(err, user, info) ==
    IF err # {} \/ user = {}
    THEN IF info = {"TokenExpiredError"}
         THEN [thrown |-> {HttpException("JWT token has expired", HttpStatus_UNAUTHORIZED)},
               value |-> {}]
         ELSE [thrown |-> IF err # {} THEN err
                          ELSE {UnauthorizedException("Unauthorized")},
               value |-> {}]
    ELSE [thrown |-> {}, value |-> user]

(***************************************************************************)
(* Required roles and permissions: the metadata Roles(...) and             *)
(* HasPermissions(...) set on a handler or on its class.                   *)
(***************************************************************************)
\* Reflector.getAllAndOverride(KEY, [handler, class]): the first that is set
getAllAndOverride(meta) ==
    IF meta.handler # {} THEN meta.handler ELSE meta.class

\* requiredRoles.some(role => user.roles?.includes(role)), from index i on
RECURSIVE someRoleHeld(_, _, _)
someRoleHeld(requiredRoles, i, user) ==
    IF i > Len(requiredRoles) THEN FALSE
    ELSE IF "roles" \in DOMAIN user /\ includes(user.roles, requiredRoles[i]) THEN TRUE
    ELSE someRoleHeld(requiredRoles, i + 1, user)

\* requiredPermissions.every(p => userPermissions.includes(p)), from index i on
RECURSIVE everyPermissionHeld(_, _, _)
everyPermissionHeld(requiredPermissions, i, userPermissions) ==
    IF i > Len(requiredPermissions) THEN TRUE
    ELSE IF ~includes(userPermissions, requiredPermissions[i]) THEN FALSE
    ELSE everyPermissionHeld(requiredPermissions, i + 1, userPermissions)

\* mutant: every required role must be held
RolesGuard_canActivate_every(context, user) ==
    LET requiredRoles == getAllAndOverride(context.roles) IN
    IF requiredRoles = {} THEN TRUE
    ELSE \A r \in UNION {Range(rr) : rr \in requiredRoles} :
            "roles" \in DOMAIN user /\ includes(user.roles, r)

\* mutant: missing metadata is read as an empty list of roles
RolesGuard_canActivate_noDefault(context, user) ==
    LET requiredRoles == getAllAndOverride(context.roles) IN
    IF requiredRoles = {} THEN FALSE
    ELSE LET rr == CHOOSE x \in requiredRoles : TRUE IN someRoleHeld(rr, 1, user)

RolesGuard_canActivate(context, user) ==
    LET requiredRoles == getAllAndOverride(context.roles) IN
    IF requiredRoles = {} THEN TRUE
    ELSE LET rr == CHOOSE x \in requiredRoles : TRUE IN someRoleHeld(rr, 1, user)

\* mutant: one required permission is enough
PermissionsGuard_canActivate_some(context, user) ==
    LET requiredPermissions == getAllAndOverride(context.permissions) IN
    IF requiredPermissions = {} THEN TRUE
    ELSE LET rp == CHOOSE x \in requiredPermissions : TRUE
             userPermissions == IF "permissions" \in DOMAIN user
                                THEN user.permissions ELSE <<>>
         IN \E i \in 1..Len(rp) : includes(userPermissions, rp[i])

PermissionsGuard_canActivate(context, user) ==
    LET requiredPermissions == getAllAndOverride(context.permissions) IN
    IF requiredPermissions = {} THEN TRUE
    ELSE LET rp == CHOOSE x \in requiredPermissions : TRUE
             userPermissions == IF "permissions" \in DOMAIN user
                                THEN user.permissions ELSE <<>>
         IN everyPermissionHeld(rp, 1, userPermissions)

(***************************************************************************)
(* The guards of an operation run in the order UseGuards lists them; the   *)
(* first that throws or returns false ends the request, and the handler    *)
(* runs only when all have passed.  ran lists what ran.                    *)
(***************************************************************************)
RECURSIVE RunGuards(_, _, _, _)
RunGuards(context, i, user, ran) ==
    IF i > Len(context.guards)
    THEN [ran |-> Append(ran, "handler"), thrown |-> {}, user |-> {user}]
    ELSE LET g == context.guards[i]
             pass == IF g = "RolesGuard" THEN RolesGuard_canActivate(context, user)
                     ELSE PermissionsGuard_canActivate(context, user)
         IN IF pass THEN RunGuards(context, i + 1, user, Append(ran, g))
            ELSE [ran |-> Append(ran, g), thrown |-> {ForbiddenException}, user |-> {user}]

\* request.user when passport found no user: it has no properties
FalsyUser == <<>>

\* context.guards[1] is JwtAuthGuard on every guarded operation
Authorize(context, passport) ==
    LET h == handleRequest(passport.err, passport.user, passport.info) IN
    IF h.thrown # {}
    THEN [ran |-> <<"JwtAuthGuard">>, thrown |-> h.thrown, user |-> {}]
    ELSE RunGuards(context, 2,
                   IF h.value = {} THEN FalsyUser ELSE CHOOSE u \in h.value : TRUE,
                   <<"JwtAuthGuard">>)

NoMeta == [handler |-> {}, class |-> {}]

\* UserController: UseGuards(JwtAuthGuard, RolesGuard) on the class
UserController_findAll ==
    [name |-> "findAll", guards |-> <<"JwtAuthGuard", "RolesGuard">>,
     roles |-> [handler |-> {<<Role_ADMIN, Role_SUPER_ADMIN>>}, class |-> {}],
     permissions |-> NoMeta]
UserController_findOne ==
    [name |-> "findOne", guards |-> <<"JwtAuthGuard", "RolesGuard">>,
     roles |-> NoMeta, permissions |-> NoMeta]
UserController_remove ==
    [name |-> "remove", guards |-> <<"JwtAuthGuard", "RolesGuard">>,
     roles |-> [handler |-> {<<Role_SUPER_ADMIN>>}, class |-> {}],
     permissions |-> NoMeta]
AuthController_getProfile ==
    [name |-> "getProfile", guards |-> <<"JwtAuthGuard">>,
     roles |-> NoMeta, permissions |-> NoMeta]

(***************************************************************************)
(* The principal store: table "users" behind Repository<User>.             *)
(***************************************************************************)
\* bcrypt.hash(pass, cost): a digest, never the plaintext itself
bcrypt_hash(pass, cost) == [alg |-> "bcrypt", cost |-> cost, of |-> pass]

\* bcrypt.compare(pass, digest)
bcrypt_compare(pass, digest) == digest.of = pass

\* Repository.findOne({ where: { email } }): the row, or null
findOneByEmail(store, email) == {u \in store : u.email = email}
findOneByUsername(store, username) == {u \in store : u.username = username}
findOne(store, id) == {u \in store : u.id = id}
findAll(store) == store

\* Repository.delete(id)
remove(store, id) == {u \in store : u.id # id}

\* Repository.save(newUser): INSERT.  Columns username and email are
\* unique: the insert of a duplicate is refused with a QueryFailedError.
\* The row gets the generated id and the default of column roles.
Repository_save(store, id, newUser) ==
    IF \E u \in store : u.username = newUser.username \/ u.email = newUser.email
    THEN [thrown |-> {InternalError("QueryFailedError")}, saved |-> {}, store |-> store]
    ELSE LET row == [id |-> id, username |-> newUser.username,
                     password |-> newUser.password, email |-> newUser.email,
                     roles |-> <<Role_USER>>]
         IN [thrown |-> {}, saved |-> {row}, store |-> store \cup {row}]

(***************************************************************************)
(* UserService.create, step by step: each await is a step of its own.      *)
(***************************************************************************)
IdleCall == [pc |-> "idle"]

create_checkEmail(store, email) ==
    IF findOneByEmail(store, email) # {}
    THEN {ConflictException("User with this email already exists")}
    ELSE {}

create_checkUsername(store, username) ==
    IF findOneByUsername(store, username) # {}
    THEN {ConflictException("User with this username already exists")}
    ELSE {}

create_newUser(email, username, pass) ==
    [username |-> username, password |-> bcrypt_hash(pass, BcryptCost), email |-> email]

\* the whole of create with no other request in between
UserService_create(store, id, email, username, pass) ==
    LET e == create_checkEmail(store, email)
        n == create_checkUsername(store, username)
    IN IF e # {} THEN [thrown |-> e, saved |-> {}, store |-> store]
       ELSE IF n # {} THEN [thrown |-> n, saved |-> {}, store |-> store]
       ELSE Repository_save(store, id, create_newUser(email, username, pass))

CreateStart(c, email, username, pass) ==
    /\ calls[c].pc = "idle"
    /\ calls' = [calls EXCEPT ![c] =
            [pc |-> "findEmail", email |-> email, username |-> username, pass |-> pass]]
    /\ UNCHANGED <<users, nextId, tokens, now, last>>

CreateFindEmail(c) ==
    /\ calls[c].pc = "findEmail"
    /\ LET t == create_checkEmail(users, calls[c].email) IN
       calls' = [calls EXCEPT ![c] =
            IF t # {} THEN [@ EXCEPT !.pc = "done"] @@ [thrown |-> t, saved |-> {}]
            ELSE [@ EXCEPT !.pc = "findUsername"]]
    /\ UNCHANGED <<users, nextId, tokens, now, last>>

CreateFindUsername(c) ==
    /\ calls[c].pc = "findUsername"
    /\ LET t == create_checkUsername(users, calls[c].username) IN
       calls' = [calls EXCEPT ![c] =
            IF t # {} THEN [@ EXCEPT !.pc = "done"] @@ [thrown |-> t, saved |-> {}]
            ELSE [@ EXCEPT !.pc = "save"]]
    /\ UNCHANGED <<users, nextId, tokens, now, last>>

CreateSave(c) ==
    /\ calls[c].pc = "save"
    /\ nextId <= MaxId
    /\ LET r == Repository_save(users, nextId,
                    create_newUser(calls[c].email, calls[c].username, calls[c].pass))
       IN /\ users' = r.store
          /\ nextId' = IF r.thrown = {} THEN nextId + 1 ELSE nextId
          /\ calls' = [calls EXCEPT ![c] =
                [@ EXCEPT !.pc = "done"] @@ [thrown |-> r.thrown, saved |-> r.saved]]
    /\ UNCHANGED <<tokens, now, last>>

(***************************************************************************)
(* AuthService                                                             *)
(***************************************************************************)
\* mutant: a wrong secret is reported as an unknown user
AuthService_validateUser_oneError(store, email, pass) ==
    LET user == findOneByEmail(store, email) IN
    IF user # {} /\ bcrypt_compare(pass, (CHOOSE u \in user : TRUE).password)
    THEN [thrown |-> {}, value |-> {WithoutPassword(CHOOSE u \in user : TRUE)}]
    ELSE [thrown |-> {NotFoundException("User not found")}, value |-> {}]

AuthService_validateUser(store, email, pass) ==
    LET user == findOneByEmail(store, email) IN
    IF user = {}
    THEN [thrown |-> {NotFoundException("User not found")}, value |-> {}]
    ELSE LET u == CHOOSE u \in user : TRUE IN
         IF bcrypt_compare(pass, u.password)
         THEN [thrown |-> {}, value |-> {WithoutPassword(u)}]
         ELSE [thrown |-> {UnauthorizedException("Invalid credentials")}, value |-> {}]

\* LocalAuthGuard: the local strategy hands the request's email and password
\* to validateUser; what it returns is request.user, what it throws is the
\* response.
LocalStrategy_validate(store, email, pass) == AuthService_validateUser(store, email, pass)

\* mutant: every token carries the default role
AuthService_login_defaultRole(user, t) ==
    LET payload == [email |-> user.email, username |-> user.username, sub |-> user.id,
                    roles |-> <<Role_USER>>]
    IN apiResponse(HttpStatus_OK, "Login successful",
                   [access_token |-> JwtService_sign(payload, t)])

AuthService_login(user, t) ==
    LET payload == [email |-> user.email, username |-> user.username, sub |-> user.id,
                    roles |-> user.roles]
    IN apiResponse(HttpStatus_OK, "Login successful",
                   [access_token |-> JwtService_sign(payload, t)])

AuthService_signup(store, id, email, username, pass) ==
    LET r == UserService_create(store, id, email, username, pass) IN
    IF r.thrown # {} THEN [thrown |-> r.thrown, result |-> {}, store |-> r.store]
    ELSE [thrown |-> {},
          result |-> {apiResponse(HttpStatus_CREATED, "Signup successful",
                                  WithoutPassword(CHOOSE u \in r.saved : TRUE))},
          store |-> r.store]

(***************************************************************************)
(* The requests.  Each records in last what it was given and every object  *)
(* it sent back (objects).                                                 *)
(***************************************************************************)
\* POST /auth/signup
Signup(email, username, pass) ==
    /\ nextId <= MaxId
    /\ LET r == AuthService_signup(users, nextId, email, username, pass) IN
       /\ users' = r.store
       /\ nextId' = IF r.thrown = {} THEN nextId + 1 ELSE nextId
       /\ last' = [op |-> "signup", email |-> email, username |-> username,
                   pass |-> pass, before |-> users, thrown |-> r.thrown,
                   objects |-> r.result \cup {x.data : x \in r.result}]
    /\ UNCHANGED <<tokens, now, calls>>

\* POST /auth/login
Login(email, pass) ==
    LET v == LocalStrategy_validate(users, email, pass) IN
    /\ IF v.thrown # {}
       THEN /\ last' = [op |-> "login", email |-> email, pass |-> pass,
                        before |-> users, thrown |-> v.thrown, value |-> {},
                        token |-> {}, objects |-> {}]
            /\ tokens' = tokens
       ELSE LET result == AuthService_login(CHOOSE u \in v.value : TRUE, now)
                token == result.data.access_token
            IN /\ last' = [op |-> "login", email |-> email, pass |-> pass,
                           before |-> users, thrown |-> {}, value |-> v.value,
                           token |-> {token},
                           objects |-> {result, result.data, token.payload}]
               /\ tokens' = {token}
    /\ UNCHANGED <<users, nextId, now, calls>>

Controllers ==
    {UserController_findAll, UserController_findOne, UserController_remove,
     AuthController_getProfile}

\* what the client presents: nothing, or the token it holds
Presentable == {NoToken} \cup tokens

\* the :id of the routes that take one
Ids(context) == IF context.name \in {"findOne", "remove"} THEN 1..MaxId ELSE {0}

\* GET /user, GET /user/:id, DELETE /user/:id, GET /auth/profile
Request(context, token, id, validateFails) ==
    LET passport == JwtStrategy_authenticate(token, now, validateFails)
        a == Authorize(context, passport)
        served == a.thrown = {}
    IN /\ users' = IF served /\ context.name = "remove" THEN remove(users, id) ELSE users
       /\ last' = [op |-> "request", context |-> context, token |-> token, id |-> id,
                   at |-> now, before |-> users, passport |-> passport, ran |-> a.ran,
                   thrown |-> a.thrown, user |-> a.user,
                   objects |-> IF ~served THEN {}
                               ELSE IF context.name = "findAll" THEN findAll(users)
                               ELSE IF context.name = "findOne" THEN findOne(users, id)
                               ELSE IF context.name = "getProfile" THEN a.user
                               ELSE {}]
       /\ UNCHANGED <<nextId, tokens, now, calls>>

\* a role assignment operation: the roles of principal id become roles
AssignableRoles ==
    {<<Role_USER>>, <<Role_ADMIN>>, <<Role_USER, Role_SUPER_ADMIN>>}

AssignRoles(id, roles) ==
    /\ \E u \in users : u.id = id /\ u.roles # roles
    /\ users' = {IF u.id = id THEN [u EXCEPT !.roles = roles] ELSE u : u \in users}
    /\ last' = [op |-> "assignRoles", id |-> id, roles |-> roles, before |-> users,
                thrown |-> {}, objects |-> {}]
    /\ UNCHANGED <<nextId, tokens, now, calls>>

Tick ==
    /\ now < MaxTime
    /\ now' = now + 1
    /\ UNCHANGED <<users, nextId, tokens, calls, last>>

Init ==
    /\ users = {}
    /\ nextId = 1
    /\ tokens = {}
    /\ now = 0
    /\ calls = [c \in Slots |-> IdleCall]
    /\ last = [op |-> "none", thrown |-> {}, objects |-> {}]

Next ==
    \/ \E e \in Emails, n \in Usernames, p \in NewPasswords : Signup(e, n, p)
    \/ \E e \in Emails, p \in Passwords : Login(e, p)
    \/ \E c \in Controllers, t \in Presentable : \E id \in Ids(c) :
            Request(c, t, id, FALSE)
    \/ \E id \in 1..MaxId, r \in AssignableRoles : AssignRoles(id, r)
    \/ Tick

Spec == Init /\ [][Next]_vars

(***************************************************************************)
(* Two concurrent signups: the steps of two UserService.create calls in    *)
(* any order, from the empty store.                                        *)
(***************************************************************************)
NextSignup ==
    \/ \E c \in Slots, e \in Emails, n \in Usernames, p \in NewPasswords :
            CreateStart(c, e, n, p)
    \/ \E c \in Slots : CreateFindEmail(c)
    \/ \E c \in Slots : CreateFindUsername(c)
    \/ \E c \in Slots : CreateSave(c)

SpecSignup == Init /\ [][NextSignup]_vars

(***************************************************************************)
(* The guards as functions of their inputs: one guarded request, for every *)
(* operation, token and time of a bounded set.                             *)
(***************************************************************************)
Opt(S) == {{}} \cup {{x} : x \in S}

GuardContexts ==
    {[name |-> "roleGated", guards |-> <<"JwtAuthGuard", "RolesGuard">>,
      roles |-> [handler |-> h, class |-> c], permissions |-> NoMeta] :
        h \in Opt(SeqsUpTo(RoleEnum, MaxRequired)), c \in {{}, {<<Role_ADMIN>>}}}
    \cup
    {[name |-> "permissionGated", guards |-> <<"JwtAuthGuard", "PermissionsGuard">>,
      roles |-> NoMeta, permissions |-> [handler |-> h, class |-> c]] :
        h \in Opt(SeqsUpTo(PermissionNames, MaxRequired)), c \in {{}, {<<"edit-articles">>}}}
    \cup Controllers

ClaimsBase == [email |-> "a@x.com", username |-> "alice", sub |-> 1]

ClaimInputs ==
    {ClaimsBase}
    \cup {ClaimsBase @@ [roles |-> r] : r \in SeqsUpTo(RoleEnum, MaxHeld)}
    \cup {ClaimsBase @@ [permissions |-> q] : q \in SeqsUpTo(PermissionNames, MaxHeld)}
    \cup {ClaimsBase @@ [roles |-> r, permissions |-> q] :
            r \in SeqsUpTo(RoleEnum, MaxHeld), q \in SeqsUpTo(PermissionNames, MaxHeld)}

TokenInputs ==
    {NoToken, MalformedToken}
    \cup {[kind |-> "jwt", key |-> k, payload |-> c, iat |-> 0, exp |-> TokenTTL] :
            k \in Keys, c \in ClaimInputs}

InitGuards ==
    /\ users = {}
    /\ nextId = 1
    /\ tokens = {}
    /\ now \in 0..MaxTime
    /\ calls = [c \in Slots |-> IdleCall]
    /\ \E c \in GuardContexts, t \in TokenInputs, f \in BOOLEAN :
            last = [op |-> "incoming", context |-> c, token |-> t, validateFails |-> f]

GuardRequest ==
    /\ last.op = "incoming"
    /\ LET passport == JwtStrategy_authenticate(last.token, now, last.validateFails)
           a == Authorize(last.context, passport)
       IN last' = [op |-> "request", context |-> last.context, token |-> last.token,
                   at |-> now, passport |-> passport, ran |-> a.ran,
                   thrown |-> a.thrown, user |-> a.user, objects |-> {}]
    /\ UNCHANGED <<users, nextId, tokens, now, calls>>

NextGuards == GuardRequest

SpecGuards == InitGuards /\ [][NextGuards]_vars

(***************************************************************************)
(* What the claims speak of.                                               *)
(***************************************************************************)
\* the request passed JwtAuthGuard with these claims
Authenticated == last.op = "request" /\ last.passport.err = {} /\ last.passport.user # {}

ClaimsOf == CHOOSE u \in last.passport.user : TRUE

\* the required list an operation declares: the handler's, else the class's
Declared(meta) == IF meta.handler # {} THEN meta.handler ELSE meta.class
ListOf(declared) == CHOOSE l \in declared : TRUE

HeldRoles == IF "roles" \in DOMAIN ClaimsOf THEN Range(ClaimsOf.roles) ELSE {}
HeldPermissions ==
    IF "permissions" \in DOMAIN ClaimsOf THEN Range(ClaimsOf.permissions) ELSE {}

Allowed == last.thrown = {} /\ last.ran = Append(last.context.guards, "handler")
DeniedBy(guard) ==
    /\ last.thrown = {ForbiddenException}
    /\ last.ran[Len(last.ran)] = guard
    /\ "handler" \notin Range(last.ran)

\* what a client sees of an exception
Visible(x) == <<x.status, x.message>>

\* C1: an authenticated request to an operation that declares required roles
\* R and is guarded by RolesGuard is allowed exactly when the claims' roles
\* and R share a role, and is denied by RolesGuard otherwise (claims with no
\* roles field hold no role).
C1_RoleGate ==
    (/\ Authenticated
     /\ last.context.guards = <<"JwtAuthGuard", "RolesGuard">>
     /\ Declared(last.context.roles) # {})
    => LET R == Range(ListOf(Declared(last.context.roles))) IN
       /\ Allowed <=> HeldRoles \cap R # {}
       /\ ~Allowed <=> DeniedBy("RolesGuard")

C1_Witness ==
    /\ Authenticated
    /\ last.context.roles.handler = {<<"admin", "moderator">>}
    /\ "roles" \in DOMAIN ClaimsOf /\ ClaimsOf.roles = <<"moderator">>
    /\ Allowed

\* C2: an authenticated request to an operation that declares required
\* permissions P and is guarded by PermissionsGuard is allowed exactly when
\* every permission of P is among the claims' permissions (none, when the
\* claims have no permissions field), and is denied otherwise.
C2_PermissionGate ==
    (/\ Authenticated
     /\ last.context.guards = <<"JwtAuthGuard", "PermissionsGuard">>
     /\ Declared(last.context.permissions) # {})
    => LET P == Range(ListOf(Declared(last.context.permissions))) IN
       /\ Allowed <=> P \subseteq HeldPermissions
       /\ ~Allowed <=> DeniedBy("PermissionsGuard")

C2_Witness ==
    /\ Authenticated
    /\ last.context.permissions.handler = {<<"create-articles", "edit-articles">>}
    /\ "permissions" \in DOMAIN ClaimsOf /\ ClaimsOf.permissions = <<"create-articles">>
    /\ DeniedBy("PermissionsGuard")

\* C3: when token verification reports an error or yields no user, the
\* request is refused by JwtAuthGuard with an exception, and neither the
\* role/permission guard nor the handler runs, whatever the operation
\* requires.
C3_UnauthenticatedDenied ==
    (last.op = "request" /\ (last.passport.err # {} \/ last.passport.user = {}))
    => /\ last.thrown # {}
       /\ last.ran = <<"JwtAuthGuard">>

C3_Witness ==
    /\ last.op = "request"
    /\ last.token = NoToken
    /\ last.context = UserController_findOne
    /\ last.thrown = {UnauthorizedException("Unauthorized")}
    /\ last.ran = <<"JwtAuthGuard">>

\* C4: an authenticated request to an operation with no Roles and no
\* HasPermissions metadata on handler or class passes the role guard and the
\* permission guard, whatever the claims carry.
C4_Unrestricted ==
    (Authenticated /\ last.context.roles = NoMeta /\ last.context.permissions = NoMeta)
    => Allowed

C4_Witness ==
    /\ Authenticated
    /\ last.context = UserController_findOne
    /\ "roles" \notin DOMAIN ClaimsOf
    /\ last.ran = <<"JwtAuthGuard", "RolesGuard", "handler">>

ExpiredResponse == <<HttpStatus_UNAUTHORIZED, "JWT token has expired">>
GenericResponse == <<HttpStatus_UNAUTHORIZED, "Unauthorized">>

ExpiredButValid(t, at) == t.kind = "jwt" /\ t.key = SigningKey /\ at >= t.exp
BadToken(t) == t.kind \in {"none", "malformed"} \/ (t.kind = "jwt" /\ t.key # SigningKey)

\* C9: an expired but otherwise valid token gets the response 401 'JWT token
\* has expired'; a missing, malformed or badly signed token gets the generic
\* 401 'Unauthorized'; the two differ, and no failure other than expiry gets
\* the expired response.
C9_ExpiredDistinct ==
    last.op = "request"
    => /\ ExpiredResponse # GenericResponse
       /\ ExpiredButValid(last.token, last.at)
            => {Visible(x) : x \in last.thrown} = {ExpiredResponse}
       /\ BadToken(last.token)
            => {Visible(x) : x \in last.thrown} = {GenericResponse}
       /\ ~ExpiredButValid(last.token, last.at)
            => ExpiredResponse \notin {Visible(x) : x \in last.thrown}

C9_Witness ==
    /\ last.op = "request"
    /\ ExpiredButValid(last.token, last.at)
    /\ {Visible(x) : x \in last.thrown} = {ExpiredResponse}

Done(c) == calls[c].pc = "done"
Succeeded(c) == Done(c) /\ calls[c].thrown = {}
Conflicted(c) == Done(c) /\ \E x \in calls[c].thrown : x.name = "ConflictException"

StoreUnique ==
    \A u, v \in users : (u.email = v.email \/ u.username = v.username) => u = v

\* C5: of two UserService.create calls with the same email, or the same
\* username, run in any interleaving of their steps, exactly one succeeds
\* and the other fails with a ConflictException; and no two stored
\* principals share an email or a username.
C5_SignupUniqueness ==
    /\ StoreUnique
    /\ \A c, d \in Slots :
        (/\ c # d /\ Done(c) /\ Done(d)
         /\ (calls[c].email = calls[d].email \/ calls[c].username = calls[d].username))
        => \/ Succeeded(c) /\ Conflicted(d)
           \/ Succeeded(d) /\ Conflicted(c)

\* C6: no object sent back by any operation holds a principal's stored
\* password digest.
C6_NoDigestInResponses ==
    \A o \in last.objects : "password" \notin DOMAIN o

\* C7: validateUser, for every email, secret and store: no principal with
\* that email gives NotFoundException (IdentityNotFound); a principal whose
\* digest the secret does not match gives UnauthorizedException 'Invalid
\* credentials' (InvalidCredentials), never NotFoundException; a match
\* returns the principal; and the store is as it was.
C7_ValidateUserOutcomes ==
    last.op = "login"
    => LET found == {u \in last.before : u.email = last.email} IN
       /\ users = last.before
       /\ found = {}
            => /\ last.value = {}
               /\ \E x \in last.thrown : x.name = "NotFoundException"
       /\ (found # {} /\ \A u \in found : u.password.of # last.pass)
            => /\ last.value = {}
               /\ \E x \in last.thrown : x.name = "UnauthorizedException"
               /\ \A x \in last.thrown : x.name # "NotFoundException"
       /\ (\E u \in found : u.password.of = last.pass)
            => /\ last.thrown = {}
               /\ \E u \in found :
                    /\ u.password.of = last.pass
                    /\ \A v \in last.value :
                         \A f \in DOMAIN v : f \in DOMAIN u /\ v[f] = u[f]
                    /\ last.value # {}

C7_Witness ==
    /\ last.op = "login"
    /\ \E u \in last.before : u.email = last.email /\ u.password.of # last.pass
    /\ \E x \in last.thrown : x.name = "UnauthorizedException"

IssuedAndValid(t, at) == t.kind = "jwt" /\ t.key = SigningKey /\ at < t.exp

\* C8: the roles in a token issued by login are the roles the principal has
\* in the store when login runs; and every decision made with an unexpired
\* issued token uses the roles in the token, whatever the store says of the
\* principal by then (its roles changed, or the principal deleted).
C8_FrozenSnapshot ==
    /\ (last.op = "login" /\ last.thrown = {})
        => \A t \in last.token : \E u \in users :
                /\ u.email = last.email
                /\ t.payload.sub = u.id
                /\ t.payload.roles = u.roles
    /\ (last.op = "request" /\ IssuedAndValid(last.token, last.at))
        => /\ last.user = {last.token.payload}
           /\ Declared(last.context.roles) # {}
                => (Allowed <=> Range(last.token.payload.roles)
                                \cap Range(ListOf(Declared(last.context.roles))) # {})

\* a request allowed on the roles in its token, which the store no longer
\* gives the principal
C8_Witness ==
    /\ last.op = "request"
    /\ IssuedAndValid(last.token, last.at)
    /\ last.context = UserController_findAll
    /\ Allowed
    /\ \E u \in last.before :
        /\ u.id = last.token.payload.sub
        /\ Range(u.roles) \cap {Role_ADMIN, Role_SUPER_ADMIN} = {}

\* C10: a login refused because the email is not registered and a login
\* refused because the secret is wrong get the same status and message.
C10_NoAccountEnumeration ==
    \A e1, e2 \in Emails, p1, p2 \in Passwords :
        LET r1 == AuthService_validateUser(users, e1, p1)
            r2 == AuthService_validateUser(users, e2, p2)
        IN (/\ findOneByEmail(users, e1) = {}
            /\ findOneByEmail(users, e2) # {}
            /\ r2.thrown # {})
           => {Visible(x) : x \in r1.thrown} = {Visible(x) : x \in r2.thrown}

\* the permissions each role groups: rows of the role-permission relation
RolePermissions(role) ==
    IF role = "admin" THEN <<"create-articles", "edit-articles">>
    ELSE IF role = "super_admin" THEN <<"edit-articles", "create-articles">>
    ELSE IF role = "moderator" THEN <<"edit-articles">>
    ELSE <<>>

NoDuplicates(arr) == \A i, j \in 1..Len(arr) : arr[i] = arr[j] => i = j

\* C11: the claims built by a successful login carry the principal's role
\* names without duplicates, and a permissions list without duplicates whose
\* elements are exactly the permissions of the principal's roles taken
\* together, in whatever order the roles are listed (claims with no
\* permissions field are read as carrying none); no roles, no permissions.
C11_LoginSnapshot ==
    (last.op = "login" /\ last.thrown = {})
    => \A t \in last.token : \E u \in users :
            LET held == IF "permissions" \in DOMAIN t.payload
                        THEN t.payload.permissions ELSE <<>>
            IN /\ u.email = last.email
               /\ Range(t.payload.roles) = Range(u.roles)
               /\ NoDuplicates(t.payload.roles)
               /\ Range(held) = UNION {Range(RolePermissions(r)) : r \in Range(u.roles)}
               /\ NoDuplicates(held)

====
